---- MODULE Spec2Model ----
(***************************************************************************)
(* Call signaling of the chat application: the socket.io relay with its    *)
(* presence map (backend lib/socket.js), and the client call state held in *)
(* the zustand store (useAuthStore.js) and the VideoCall / ChatHeader      *)
(* components.                                                             *)
(***************************************************************************)
EXTENDS Integers, Sequences, FiniteSets, TLC

\* ------------------------------------------------------------------ bounds
\* socket ids the server hands out (one per connection, never reused), and
\* sockets one tab has open at one time
MaxSockets == 3
\* RTCPeerConnections of one client that are open, referenced by VideoCall or
\* waited for by a promise chain, at one time
MaxPcs == 2
\* media streams of one client's VideoCall instances that are live or being
\* requested at one time, the automatic retries of the mounted instance not
\* counted
MaxStreams == 1
\* retries of getUserMedia that the retry timers of one VideoCall instance
\* make without a user action
MaxAuto == 4
\* 1 s retry timers of handleMediaError pending in one client at one time
MaxRetryTimers == 1
\* 2 s waits of handleReconnection pending in one client at one time
MaxWaits == 1
\* setTimeout callbacks of callUser pending in one client at one time
MaxInvites == 1
\* iceCandidate messages one client receives
MaxIce == 1
\* messages in flight from the clients to the server, and from the server to
\* one client, at one time
MaxInFlight == 2

\* ---------------------------------------------------------------- universe
\* user ids that sockets present in their handshake query
Users == {"u1", "u2"}
\* a handshake without a userId (socket.handshake.query.userId undefined)
NoUser == "none"
\* ids that may be named as the target of a signaling message: the users, and
\* an id that never connects
Targets == Users \cup {"u3"}
Sids == 1..MaxSockets
\* opaque payloads carried by signaling messages (descriptions, candidates)
Payloads == {"p1", "p2"}
Nil == "-"

VARIABLES
  userSocketMap,  \* server: {userId: socketId}, a function on the keys present
  connected,      \* server: ids of the sockets connected now
  sockUser,       \* server: handshake userId of every socket ever connected
  nextSid,        \* server: next socket id to hand out
  srvOut,         \* server: what the last handler emitted, in order
  srvEv,          \* history: the event the last handler ran for
  lastReg,        \* history: per user id, its most recent connect/disconnect
  cl,             \* clients: per user id, the store, the VideoCall component,
                  \* the peer connections and media streams of its browser tab
  toServer,       \* messages clients emitted that the server has not handled
  inbox,          \* per client, messages the server emitted to its socket
  wired           \* whether the clients' sockets are attached to this server

srvVars == <<userSocketMap, connected, sockUser, nextSid, srvOut, srvEv, lastReg>>
netVars == <<toServer, inbox, wired>>
vars == <<srvVars, cl, netVars>>

\* ------------------------------------------------------------------ server
\* Object.keys(userSocketMap)
OnlineKeys(map) == DOMAIN map

\* userSocketMap[userId]; NoSock (0) stands for undefined
NoSock == 0
getReceiverSocketId(map, userId) ==
  IF userId \in DOMAIN map THEN map[userId] ELSE NoSock

\* a message emitted by the server to one socket; fields a kind does not carry
\* hold Nil (users: the empty set)
Emit(to, ev, signal, from, name) ==
  [to |-> to, ev |-> ev, signal |-> signal, from |-> from, name |-> name, users |-> {}]

\* the elements of a set of socket ids, ascending
SetToSeq(S) ==
  LET RECURSIVE Go(_)
      Go(T) == IF T = {} THEN <<>>
               ELSE LET x == CHOOSE y \in T : \A z \in T : y <= z
                    IN <<x>> \o Go(T \ {x})
  IN Go(S)

\* a handler that broadcasts the key set without the entry of user u
BroadcastStale(conn, map, u) ==
  [i \in 1..Cardinality(conn) |->
     [to |-> SetToSeq(conn)[i], ev |-> "getOnlineUsers", signal |-> Nil,
      from |-> Nil, name |-> Nil, users |-> OnlineKeys(map) \ {u}]]
\* io.emit("getOnlineUsers", Object.keys(userSocketMap)): one message per
\* connected socket; the key set travels in the users field. u is the user id
\* of the handler's socket (not used by the code's broadcast)
Broadcast(conn, map, u) ==
  [i \in 1..Cardinality(conn) |->
     [to |-> SetToSeq(conn)[i], ev |-> "getOnlineUsers", signal |-> Nil,
      from |-> Nil, name |-> Nil, users |-> OnlineKeys(map)]]

\* if (userId) userSocketMap[userId] = socket.id
Register(map, userId, sid) ==
  IF userId # NoUser
    THEN [u \in DOMAIN map \cup {userId} |-> IF u = userId THEN sid ELSE map[u]]
    ELSE map

\* a disconnect handler that removes the entry only when it is this socket's
UnregisterOwn(map, userId, sid) ==
  IF getReceiverSocketId(map, userId) = sid
    THEN [u \in DOMAIN map \ {userId} |-> map[u]]
    ELSE map
\* delete userSocketMap[userId]
Unregister(map, userId, sid) ==
  [u \in DOMAIN map \ {userId} |-> map[u]]

\* the event a handler ran for (history)
SrvEvent(op, sock, user, target, signal, from, name) ==
  [op |-> op, sock |-> sock, user |-> user, target |-> target,
   signal |-> signal, from |-> from, name |-> name]

\* io.on("connection"): a new socket with handshake userId u
Connection(u) ==
  /\ nextSid <= MaxSockets
  /\ LET sid == nextSid
         map == Register(userSocketMap, u, sid)
         conn == connected \cup {sid}
     IN /\ userSocketMap' = map
        /\ connected' = conn
        /\ sockUser' = [s \in DOMAIN sockUser \cup {sid} |->
                          IF s = sid THEN u ELSE sockUser[s]]
        /\ nextSid' = nextSid + 1
        /\ srvOut' = Broadcast(conn, map, u)
        /\ srvEv' = SrvEvent("connection", sid, u, Nil, Nil, Nil, Nil)
        /\ lastReg' = IF u \in Users
                        THEN [lastReg EXCEPT ![u] = [kind |-> "connect", sid |-> sid]]
                        ELSE lastReg
        /\ UNCHANGED <<cl, netVars>>

\* socket.on("disconnect"): the socket has left before the handler runs
Disconnect(s) ==
  /\ s \in connected
  /\ LET u == sockUser[s]
         map == Unregister(userSocketMap, u, s)
         conn == connected \ {s}
     IN /\ userSocketMap' = map
        /\ connected' = conn
        /\ srvOut' = Broadcast(conn, map, u)
        /\ srvEv' = SrvEvent("disconnect", s, u, Nil, Nil, Nil, Nil)
        /\ lastReg' = IF u \in Users
                        THEN [lastReg EXCEPT ![u] = [kind |-> "disconnect", sid |-> s]]
                        ELSE lastReg
        /\ UNCHANGED <<sockUser, nextSid, cl, netVars>>

\* the event the server emits to the target for each event it receives
ForwardedAs(ev) ==
  CASE ev = "callUser" -> "callUser"
    [] ev = "answerCall" -> "callAccepted"
    [] ev = "iceCandidate" -> "iceCandidate"
    [] ev = "endCall" -> "callEnded"
    [] ev = "rejectCall" -> "callRejected"

\* a callUser handler that forwards to every connected socket of the target
\* user when the map has no entry
CallUserEmitsAnySocket(map, s, userToCall, signalData, from, name) ==
  LET socketId == getReceiverSocketId(map, userToCall)
      other == {x \in connected : sockUser[x] = userToCall}
  IN IF socketId # NoSock
       THEN <<Emit(socketId, "callUser", signalData, from, name)>>
       ELSE IF other # {}
         THEN [i \in 1..Cardinality(other) |->
                 Emit(SetToSeq(other)[i], "callUser", signalData, from, name)]
         ELSE <<Emit(s, "callFailed", "User is offline", Nil, Nil)>>
\* socket.on("callUser"): forward to the mapped socket, else callFailed to the
\* sender
CallUserEmits(map, s, userToCall, signalData, from, name) ==
  LET socketId == getReceiverSocketId(map, userToCall)
  IN IF socketId # NoSock
       THEN <<Emit(socketId, "callUser", signalData, from, name)>>
       ELSE <<Emit(s, "callFailed", "User is offline", Nil, Nil)>>

\* a forwarding handler that sends to every connected socket of the target user
ForwardEmitsAllSockets(map, ev, to, data) ==
  LET all == {x \in connected : sockUser[x] = to}
  IN [i \in 1..Cardinality(all) |->
        Emit(SetToSeq(all)[i], ForwardedAs(ev), data, Nil, Nil)]
\* a forwarding handler that also announces the presence list
ForwardEmitsAndBroadcast(map, ev, to, data) ==
  LET socketId == getReceiverSocketId(map, to)
  IN (IF socketId # NoSock
        THEN <<Emit(socketId, ForwardedAs(ev), data, Nil, Nil)>>
        ELSE <<>>) \o Broadcast(connected, map, Nil)
\* socket.on("answerCall" | "iceCandidate" | "endCall" | "rejectCall"): forward
\* to the mapped socket, else nothing. data is data.signal / data.candidate,
\* Nil for endCall and rejectCall
ForwardEmits(map, ev, to, data) ==
  LET socketId == getReceiverSocketId(map, to)
  IN IF socketId # NoSock
       THEN <<Emit(socketId, ForwardedAs(ev), data, Nil, Nil)>>
       ELSE <<>>

\* the end of a signaling handler: with the clients attached, the message
\* handled leaves toServer and every message emitted reaches the inbox of the
\* client whose socket it names
Handled(out) ==
  /\ toServer' = IF wired THEN Tail(toServer) ELSE toServer
  /\ inbox' = IF wired
                THEN [c \in Users |->
                        inbox[c] \o SelectSeq(out, LAMBDA m : /\ m.to \in connected
                                                             /\ sockUser[m.to] = c)]
                ELSE inbox
  /\ wired => \A c \in Users : Len(inbox'[c]) <= MaxInFlight
  /\ UNCHANGED <<cl, wired>>

\* socket s sends callUser {userToCall, signalData, from, name}
OnCallUser(s, userToCall, signalData, from, name) ==
  /\ s \in connected
  /\ srvOut' = CallUserEmits(userSocketMap, s, userToCall, signalData, from, name)
  /\ srvEv' = SrvEvent("callUser", s, sockUser[s], userToCall, signalData, from, name)
  /\ Handled(CallUserEmits(userSocketMap, s, userToCall, signalData, from, name))
  /\ UNCHANGED <<userSocketMap, connected, sockUser, nextSid, lastReg>>

\* socket s sends answerCall {signal, to}
OnAnswerCall(s, to, signal) ==
  /\ s \in connected
  /\ srvOut' = ForwardEmits(userSocketMap, "answerCall", to, signal)
  /\ srvEv' = SrvEvent("answerCall", s, sockUser[s], to, signal, Nil, Nil)
  /\ Handled(ForwardEmits(userSocketMap, "answerCall", to, signal))
  /\ UNCHANGED <<userSocketMap, connected, sockUser, nextSid, lastReg>>

\* socket s sends iceCandidate {candidate, to}
OnIceCandidate(s, to, candidate) ==
  /\ s \in connected
  /\ srvOut' = ForwardEmits(userSocketMap, "iceCandidate", to, candidate)
  /\ srvEv' = SrvEvent("iceCandidate", s, sockUser[s], to, candidate, Nil, Nil)
  /\ Handled(ForwardEmits(userSocketMap, "iceCandidate", to, candidate))
  /\ UNCHANGED <<userSocketMap, connected, sockUser, nextSid, lastReg>>

\* socket s sends endCall {to}
OnEndCall(s, to) ==
  /\ s \in connected
  /\ srvOut' = ForwardEmits(userSocketMap, "endCall", to, Nil)
  /\ srvEv' = SrvEvent("endCall", s, sockUser[s], to, Nil, Nil, Nil)
  /\ Handled(ForwardEmits(userSocketMap, "endCall", to, Nil))
  /\ UNCHANGED <<userSocketMap, connected, sockUser, nextSid, lastReg>>

\* socket s sends rejectCall {to}
OnRejectCall(s, to) ==
  /\ s \in connected
  /\ srvOut' = ForwardEmits(userSocketMap, "rejectCall", to, Nil)
  /\ srvEv' = SrvEvent("rejectCall", s, sockUser[s], to, Nil, Nil, Nil)
  /\ Handled(ForwardEmits(userSocketMap, "rejectCall", to, Nil))
  /\ UNCHANGED <<userSocketMap, connected, sockUser, nextSid, lastReg>>

\* ------------------------------------------------------------------ client
\* The state of one browser tab is one record: the zustand store's call
\* fields, the state of the mounted VideoCall instance, the peer connections
\* and media streams the tab created, its pending asynchronous work, the
\* messages its last handler emitted (out), and history fields (h...).

\* callSignal: null
NullSig == [t |-> "null", id |-> 0]
\* offers arriving from remote callers
RemoteOffers == {[t |-> "offer", id |-> 1], [t |-> "offer", id |-> 2]}
\* answers arriving with callAccepted; the Answer button can send null
RemoteAnswers == {[t |-> "answer", id |-> 1], NullSig}
\* pc.createOffer() of the tab's pc number p
OfferOf(p) == [t |-> "offer", id |-> 10 + p]
\* pc.createAnswer() after setRemoteDescription(offer)
AnswerTo(offer) == [t |-> "answer", id |-> offer.id]

\* no stream / no peer connection (null)
NoStream == 0
NoPc == 0

\* socket.emit(ev, {...}) of a client: to is userToCall / to
CMsg(ev, to, signal, from, name) ==
  [ev |-> ev, to |-> to, signal |-> signal, from |-> from, name |-> name]

\* new RTCPeerConnection(...): to is caller.from as the onicecandidate closure
\* of the creating render sees it (Nil for ChatHeader's pc, which sets no
\* handler)
NewPc(origin, to) ==
  [open |-> TRUE, origin |-> origin, localDesc |-> NullSig, remoteDesc |-> NullSig,
   applied |-> <<>>, neg |-> "none", sig |-> NullSig, gather |-> FALSE, to |-> to,
   conn |-> "new"]

\* the dependencies of the peer connection effect that can change: localStream,
\* receivingCall, callSignal, callAccepted, mediaError, caller?.from, and
\* handleReconnection, which is a new function whenever isReconnecting,
\* localStream or getMediaWithErrorHandling (retryAttempts) changed
Deps(k) ==
  <<k.localStream, k.receivingCall, k.callSignal, k.callAccepted, k.mediaError, k.from,
    k.isReconnecting, k.retryAttempts>>
NoDeps == <<NoStream, FALSE, NullSig, FALSE, FALSE, Nil, FALSE, 0>>

\* const MAX_RETRY_ATTEMPTS = 3
MAX_RETRY_ATTEMPTS == 3

\* create(...) initial state of a tab that has logged in and received the
\* presence list with both users; no VideoCall mounted. offlineNotice: whether
\* ChatHeader's permissionError holds the "User is currently offline" text;
\* statusConnected: whether VideoCall's callStatus is 'connected'. sockOpen:
\* the store's socket exists and disconnect() was not called on it;
\* sockConnected: its connected flag; otherOpen: the sockets this tab created
\* before, which the store no longer names and nothing has closed
IdleClient ==
  [callAccepted |-> FALSE, callEnded |-> FALSE, receivingCall |-> FALSE,
   from |-> Nil, callSignal |-> NullSig, timers |-> 0,
   mounted |-> FALSE, localStream |-> NoStream, peerConnection |-> NoPc,
   mediaError |-> FALSE, canRetry |-> FALSE, permissionDenied |-> FALSE,
   isLoadingMedia |-> FALSE, retryAttempts |-> 0, connectionError |-> FALSE,
   effPc |-> NoPc, effDeps |-> NoDeps, medStream |-> NoStream, medDeps |-> 0,
   pcs |-> <<>>, lostPcs |-> 0, live |-> {}, lostStreams |-> 0,
   reqs |-> <<>>, reqOld |-> <<>>, retry |-> <<>>, retryOld |-> <<>>,
   isReconnecting |-> FALSE, reconn |-> 0, reconnOld |-> 0,
   authUser |-> TRUE, sockOpen |-> TRUE, otherOpen |-> 0,
   sockConnected |-> TRUE, socketError |-> FALSE,
   onlineUsers |-> Users, offlineNotice |-> FALSE, hAsked |-> FALSE,
   statusConnected |-> FALSE,
   hRetries |-> 0, hLate |-> FALSE,
   nIce |-> 0, out |-> <<>>,
   hIceLost |-> {}, hInvite |-> FALSE, hRing |-> FALSE, hHow |-> "none",
   hEnd |-> "none", hOver |-> FALSE, hFailed |-> FALSE]

\* ---- store (useAuthStore.js)
\* callUser(userToCall, signalData, name); me is authUser._id
callUser(k, me, userToCall, signalData) ==
  [k EXCEPT !.out = Append(@, CMsg("callUser", userToCall, signalData, me, me)),
            !.from = userToCall,
            !.receivingCall = FALSE,
            !.callSignal = signalData,
            !.timers = @ + 1,
            !.hInvite = TRUE, !.hEnd = "none", !.hOver = FALSE, !.hFailed = FALSE]

\* answerCall(signal)
answerCall(k, signal) ==
  IF k.from # Nil
    THEN [k EXCEPT !.out = Append(@, CMsg("answerCall", k.from, signal, Nil, Nil)),
                   !.callAccepted = TRUE,
                   !.hHow = IF k.hRing THEN "answered"
                            ELSE IF k.hHow # "none" THEN k.hHow ELSE "stray"]
    ELSE k

\* sendIceCandidate(candidate, to)
sendIceCandidate(k, candidate, to) ==
  IF to # Nil
    THEN [k EXCEPT !.out = Append(@, CMsg("iceCandidate", to, candidate, Nil, Nil))]
    ELSE k

\* an endCall that emits whether or not caller.from is set
endCallAlways(k) ==
  LET k1 == [k EXCEPT !.out = Append(@, CMsg("endCall", k.from, Nil, Nil, Nil))]
  IN [k1 EXCEPT !.callEnded = TRUE, !.callAccepted = FALSE, !.receivingCall = FALSE,
                !.from = Nil, !.callSignal = NullSig,
                !.hInvite = FALSE, !.hRing = FALSE, !.hHow = "none"]
\* an endCall that resets the flags but leaves caller in place
endCallKeepsCaller(k) ==
  LET k1 == IF k.from # Nil
              THEN [k EXCEPT !.out = Append(@, CMsg("endCall", k.from, Nil, Nil, Nil))]
              ELSE k
  IN [k1 EXCEPT !.callEnded = TRUE, !.callAccepted = FALSE, !.receivingCall = FALSE,
                !.callSignal = NullSig,
                !.hInvite = FALSE, !.hRing = FALSE, !.hHow = "none"]
\* endCall()
endCall(k) ==
  LET k1 == IF k.from # Nil
              THEN [k EXCEPT !.out = Append(@, CMsg("endCall", k.from, Nil, Nil, Nil))]
              ELSE k
  IN [k1 EXCEPT !.callEnded = TRUE, !.callAccepted = FALSE, !.receivingCall = FALSE,
                !.from = Nil, !.callSignal = NullSig,
                !.hInvite = FALSE, !.hRing = FALSE, !.hHow = "none"]

\* a rejectCall that leaves caller in place
rejectCallKeepsCaller(k) ==
  IF k.from # Nil
    THEN [k EXCEPT !.out = Append(@, CMsg("rejectCall", k.from, Nil, Nil, Nil)),
                   !.receivingCall = FALSE, !.callSignal = NullSig,
                   !.hRing = FALSE]
    ELSE k
\* rejectCall()
rejectCall(k) ==
  IF k.from # Nil
    THEN [k EXCEPT !.out = Append(@, CMsg("rejectCall", k.from, Nil, Nil, Nil)),
                   !.receivingCall = FALSE, !.from = Nil, !.callSignal = NullSig,
                   !.hRing = FALSE]
    ELSE k

\* socket.on("callUser", ({ from, name, signal }) => set({...}))
onCallUser(k, from, signal) ==
  [k EXCEPT !.receivingCall = TRUE, !.from = from, !.callSignal = signal,
            !.callAccepted = FALSE, !.callEnded = FALSE,
            !.hRing = TRUE, !.hHow = "none", !.hEnd = "none"]

\* socket.on("callAccepted", (signal) => set({...}))
onCallAccepted(k, signal) ==
  [k EXCEPT !.callAccepted = TRUE, !.callSignal = signal,
            !.hHow = IF k.hInvite THEN "accepted"
                     ELSE IF k.hHow # "none" THEN k.hHow ELSE "stray",
            !.hInvite = FALSE]

\* socket.on("callEnded") and socket.on("callRejected") set the same fields
onCallEnded(k) ==
  [k EXCEPT !.callEnded = TRUE, !.callAccepted = FALSE, !.receivingCall = FALSE,
            !.from = Nil, !.callSignal = NullSig,
            !.hInvite = FALSE, !.hRing = FALSE, !.hHow = "none"]

\* a tab before checkAuth, login or signup: authUser null, socket null,
\* onlineUsers []
LoggedOut ==
  [IdleClient EXCEPT !.authUser = FALSE, !.sockOpen = FALSE,
                     !.sockConnected = FALSE, !.onlineUsers = {}]

\* connectSocket(): nothing without authUser or with a socket whose connected
\* flag is set; else io(BASE_URL, {query}) makes a new socket, which starts to
\* connect, and set({socket}) replaces the one the store named
connectSocket(k) ==
  IF ~k.authUser \/ k.sockConnected THEN k
  ELSE [k EXCEPT !.otherOpen = IF k.sockOpen THEN @ + 1 ELSE @,
                 !.sockOpen = TRUE, !.sockConnected = FALSE]

\* disconnectSocket(): socket.disconnect() only when its connected flag is set
disconnectSocket(k) ==
  IF k.sockConnected THEN [k EXCEPT !.sockOpen = FALSE, !.sockConnected = FALSE]
  ELSE k

\* ---- HomePage and the VideoCall effects
\* {(receivingCall || (callAccepted && !callEnded)) && <VideoCall/>}
ShouldShow(k) == k.receivingCall \/ (k.callAccepted /\ ~k.callEnded)

\* the id of the next peer connection / media stream object: the smallest one
\* no object in use has
NewPcId(k) == CHOOSE p \in 1..(MaxPcs + 1) :
                /\ p \notin DOMAIN k.pcs
                /\ \A q \in 1..(MaxPcs + 1) : q < p => q \in DOMAIN k.pcs
NewStreamId(k) == CHOOSE s \in 1..(MaxStreams + MaxAuto + 2) :
                   /\ s \notin k.live \cup {k.localStream, k.medStream}
                   /\ \A q \in 1..(MaxStreams + MaxAuto + 2) :
                        q < s => q \in k.live \cup {k.localStream, k.medStream}
AddPc(k, p, pc) ==
  [k EXCEPT !.pcs = [i \in DOMAIN k.pcs \cup {p} |-> IF i = p THEN pc ELSE k.pcs[i]]]

\* pc.close() (a closed connection fires no more events)
ClosePc(k, p) ==
  IF p = NoPc THEN k ELSE [k EXCEPT !.pcs[p].open = FALSE, !.pcs[p].gather = FALSE]

\* stream.getTracks().forEach(track => track.stop())
StopStream(k, s) ==
  IF s = NoStream THEN k ELSE [k EXCEPT !.live = @ \ {s}]

\* which branch of the peer connection effect starts a negotiation
NegOf(k) ==
  IF k.receivingCall /\ k.callSignal # NullSig /\ ~k.callAccepted THEN "answer"
  ELSE IF k.callAccepted /\ k.callSignal # NullSig /\ ~k.receivingCall THEN "remote"
  ELSE "none"

\* the peer connection effect: the cleanup of its previous run (pc.close()),
\* then its body, which begins with setCallStatus('connecting'). Without a
\* stream or with a media error it returns early and peerConnection keeps
\* naming the closed connection
PcEffect(k) ==
  LET k1 == ClosePc(k, k.effPc)
      k2 == [k1 EXCEPT !.effDeps = Deps(k), !.effPc = NoPc]
      p == NewPcId(k2)
      pc == [NewPc("videocall", k.from) EXCEPT
               !.neg = NegOf(k),
               !.sig = IF NegOf(k) = "none" THEN NullSig ELSE k.callSignal]
  IN IF k.localStream = NoStream \/ k.mediaError
       THEN k2
       ELSE [AddPc(k2, p, pc) EXCEPT !.peerConnection = p, !.effPc = p,
                                     !.connectionError = FALSE,
                                     !.statusConnected = FALSE]

\* getUserMedia calls in flight and retry timers pending are kept as ascending
\* sequences of the retryAttempts value their closures hold
Ins(s, g) ==
  LET n == Cardinality({i \in 1..Len(s) : s[i] <= g})
  IN SubSeq(s, 1, n) \o <<g>> \o SubSeq(s, n + 1, Len(s))
Del(s, g) ==
  LET i == CHOOSE j \in 1..Len(s) : s[j] = g
  IN SubSeq(s, 1, i - 1) \o SubSeq(s, i + 1, Len(s))
Merge(s, u) ==
  LET RECURSIVE Go(_, _)
      Go(a, b) == IF b = <<>> THEN a ELSE Go(Ins(a, Head(b)), Tail(b))
  IN Go(s, u)
Has(s, g) == \E i \in 1..Len(s) : s[i] = g

\* the start of getMediaWithErrorHandling, as created by the render whose
\* retryAttempts is g: setIsLoadingMedia(true), setMediaError(null),
\* setPermissionDenied(false), then getUserMedia is awaited
getMediaWithErrorHandling(k, g) ==
  [k EXCEPT !.isLoadingMedia = TRUE, !.mediaError = FALSE, !.canRetry = FALSE,
            !.permissionDenied = FALSE, !.reqs = Ins(@, g)]

\* handleMediaError(error) of the render whose retryAttempts is g. denied:
\* NotAllowedError, PermissionDeniedError; overconstrained:
\* OverconstrainedError, ConstraintNotSatisfiedError, which arm the 1 s retry
\* timer while g < MAX_RETRY_ATTEMPTS; other: NotFoundError, NotReadableError,
\* TypeError and the default case
handleMediaError(k, res, g) ==
  CASE res = "denied" ->
         [k EXCEPT !.permissionDenied = TRUE, !.mediaError = TRUE, !.canRetry = FALSE]
    [] res = "overconstrained" ->
         IF g < MAX_RETRY_ATTEMPTS
           THEN [k EXCEPT !.retry = Ins(@, g), !.mediaError = TRUE, !.canRetry = TRUE]
           ELSE [k EXCEPT !.mediaError = TRUE, !.canRetry = FALSE]
    [] OTHER -> [k EXCEPT !.mediaError = TRUE, !.canRetry = TRUE]

\* the end of getMediaWithErrorHandling of the mounted VideoCall. A stream s:
\* setLocalStream(stream) and setCallStatus('connected'); an error:
\* handleMediaError(error) and setCallStatus('failed')
mediaSettled(k, res, g, s) ==
  IF res = "ok"
    THEN [k EXCEPT !.live = @ \cup {s}, !.localStream = s, !.statusConnected = TRUE]
    ELSE [handleMediaError(k, res, g) EXCEPT !.statusConnected = FALSE]

\* the media effect, which depends on getMediaWithErrorHandling and so on
\* retryAttempts: the cleanup of its previous run stops the stream that run's
\* closure captured, then its body calls getMediaWithErrorHandling()
MediaEffect(k) ==
  getMediaWithErrorHandling(
    [StopStream(k, k.medStream) EXCEPT !.medStream = k.localStream,
                                       !.medDeps = k.retryAttempts],
    k.retryAttempts)

\* VideoCall mounts: fresh component state; the media effect calls
\* getMediaWithErrorHandling() (one request in flight) and its cleanup closure
\* captures localStream = null; the peer connection effect returns early
Mount(k) ==
  PcEffect(MediaEffect([k EXCEPT !.mounted = TRUE, !.localStream = NoStream,
                                 !.peerConnection = NoPc, !.mediaError = FALSE,
                                 !.connectionError = FALSE, !.effPc = NoPc,
                                 !.medStream = NoStream,
                                 !.socketError = FALSE,
                                 !.statusConnected = FALSE]))

\* VideoCall unmounts: the media effect's cleanup stops the stream its closure
\* captured, the peer connection effect's cleanup closes its pc; requests in
\* flight stay in flight, and promise chains of the instance's (closed)
\* connections reject into setState calls of the unmounted instance (no-ops)
Unmount(k) ==
  LET k1 == StopStream(k, k.medStream)
      k2 == ClosePc(k1, k.effPc)
  IN [k2 EXCEPT !.mounted = FALSE, !.localStream = NoStream, !.peerConnection = NoPc,
                !.mediaError = FALSE, !.canRetry = FALSE, !.permissionDenied = FALSE,
                !.isLoadingMedia = FALSE, !.retryAttempts = 0,
                !.connectionError = FALSE,
                !.effPc = NoPc, !.effDeps = NoDeps, !.medStream = NoStream,
                !.medDeps = 0,
                !.reqOld = Merge(@, k.reqs), !.reqs = <<>>,
                !.retryOld = Merge(@, k.retry), !.retry = <<>>,
                !.isReconnecting = FALSE,
                !.reconnOld = @ + k.reconn, !.reconn = 0,
                !.socketError = FALSE, !.hRetries = 0,
                !.statusConnected = FALSE,
                !.pcs = [i \in DOMAIN k2.pcs |-> [k2.pcs[i] EXCEPT !.neg = "none"]]]

\* the React commit that follows a handler: HomePage mounts or unmounts
\* VideoCall, and a mounted VideoCall re-runs, in the order of their
\* declaration, the media effect and the peer connection effect when one of
\* their dependencies changed
Effects(k) ==
  IF k.mounted
    THEN IF ShouldShow(k)
           THEN LET k1 == IF k.retryAttempts # k.medDeps THEN MediaEffect(k) ELSE k
                IN IF Deps(k1) # k1.effDeps THEN PcEffect(k1) ELSE k1
           ELSE Unmount(k)
    ELSE IF ShouldShow(k) THEN Mount(k) ELSE k

\* Objects nothing can reach any more keep no identity, and the numbers of the
\* others carry no meaning. A connection that no
\* component state names, that no promise chain waits for and that has no
\* event to report is forgotten when closed and counted in lostPcs when open;
\* a live stream that no component state or closure names is counted in
\* lostStreams. hFailed is kept while the invite it answered is pending
Reachable(k, q) ==
  \/ k.pcs[q].neg # "none"
  \/ k.pcs[q].gather
  \/ q \in {k.peerConnection, k.effPc}
Collect(k) ==
  LET keep == {q \in DOMAIN k.pcs : Reachable(k, q)}
      lost == {q \in DOMAIN k.pcs \ keep : k.pcs[q].open}
      held == k.live \cap {k.localStream, k.medStream}
      \* the connections kept are renumbered 1, 2, ... in the order they have
      Rank(q) == Cardinality({r \in keep : r <= q})
      Old(i) == CHOOSE q \in keep : Rank(q) = i
      \* what can still be observed of a connection: of a closed one only the
      \* promise chain waiting on it, of a settled one not the signal it used
      Seen(pc) ==
        IF pc.open
          THEN [pc EXCEPT !.sig = IF pc.neg = "none" THEN NullSig ELSE @]
          ELSE [NewPc(pc.origin, Nil) EXCEPT !.open = FALSE, !.neg = pc.neg,
                                             !.sig = IF pc.neg = "none" THEN NullSig
                                                     ELSE pc.sig]
  IN [k EXCEPT !.pcs = [i \in 1..Cardinality(keep) |-> Seen(k.pcs[Old(i)])],
               !.peerConnection = IF @ \in keep THEN Rank(@) ELSE NoPc,
               !.effPc = IF @ \in keep THEN Rank(@) ELSE NoPc,
               !.lostPcs = @ + Cardinality(lost),
               !.live = held,
               !.lostStreams = @ + Cardinality(k.live \ held),
               !.hFailed = @ /\ k.hInvite /\ k.from # Nil /\ ~k.callAccepted
                             /\ ~k.callEnded]

Render(k) == Collect(Effects(k))

\* the model's bounds on what one client holds at one time
Fits(k) ==
  /\ Cardinality(DOMAIN k.pcs) + k.lostPcs <= MaxPcs
  /\ Cardinality(k.live) + k.lostStreams + Len(k.reqs) + Len(k.reqOld)
       <= MaxStreams + k.hRetries
  /\ k.hRetries <= MaxAuto
  /\ Len(k.retry) + Len(k.retryOld) <= MaxRetryTimers
  /\ k.reconn + k.reconnOld <= MaxWaits
  /\ k.timers <= MaxInvites
  /\ k.nIce <= MaxIce
  /\ k.otherOpen + (IF k.sockOpen THEN 1 ELSE 0) <= MaxSockets

\* a handler of client c starts with nothing emitted; it ends with the commit
Begin(c) == [cl[c] EXCEPT !.out = <<>>, !.hLate = FALSE, !.hAsked = FALSE]
Commit(c, k) ==
  LET r == Render(k)
  IN /\ Fits(r)
     /\ cl' = [cl EXCEPT ![c] = r]
     /\ toServer' = IF wired
                      THEN toServer \o [i \in 1..Len(r.out) |->
                                         [sender |-> c, msg |-> r.out[i]]]
                      ELSE toServer
     /\ Len(toServer') <= MaxInFlight
     /\ UNCHANGED <<srvVars, wired>>

\* ---- user actions
\* checkAuth(): the request succeeds (ok): set({authUser}), connectSocket();
\* it fails: set({authUser: null})
checkAuth(c, ok) ==
  LET k == Begin(c)
  IN /\ UNCHANGED inbox
     /\ Commit(c, IF ok THEN connectSocket([k EXCEPT !.authUser = TRUE])
                  ELSE [k EXCEPT !.authUser = FALSE])

\* login(data) and signup(data), which set the same fields: the request
\* succeeds (ok): set({authUser}), connectSocket(); it fails: a toast
login(c, ok) ==
  LET k == Begin(c)
  IN /\ UNCHANGED inbox
     /\ Commit(c, IF ok THEN connectSocket([k EXCEPT !.authUser = TRUE]) ELSE k)

signup(c, ok) ==
  LET k == Begin(c)
  IN /\ UNCHANGED inbox
     /\ Commit(c, IF ok THEN connectSocket([k EXCEPT !.authUser = TRUE]) ELSE k)

\* logout(): the request succeeds (ok): set({authUser: null}),
\* disconnectSocket(); it fails: a toast
logout(c, ok) ==
  LET k == Begin(c)
  IN /\ UNCHANGED inbox
     /\ Commit(c, IF ok THEN disconnectSocket([k EXCEPT !.authUser = FALSE]) ELSE k)

\* a handleCallUser without the presence check
handleCallUserUnchecked(c, selectedUser, ok) ==
  LET k == [Begin(c) EXCEPT !.offlineNotice = FALSE, !.hAsked = TRUE]
      p == NewPcId(k)
      k1 == AddPc(k, p, NewPc("header", Nil))
      k2 == [k1 EXCEPT !.pcs[p].localDesc = OfferOf(p), !.pcs[p].gather = TRUE]
  IN /\ ~cl[c].mounted
     /\ UNCHANGED inbox
     /\ Commit(c, IF ok THEN callUser(k2, c, selectedUser, OfferOf(p)) ELSE k1)
\* ChatHeader.handleCallUser. A selected user that is not in onlineUsers:
\* setPermissionError("User is currently offline...") and return. Else the
\* permission check, passed here (setPermissionError(null), getUserMedia:
\* hAsked), then the pc for the offer, which is never closed and has no
\* onicecandidate handler; the stream acquired for the offer is stopped before
\* the handler returns. ok = FALSE: getUserMedia rejects after the pc exists
\* (setPermissionError("Failed to start video call..."), another text)
handleCallUser(c, selectedUser, ok) ==
  LET k0 == Begin(c)
      k == [k0 EXCEPT !.offlineNotice = FALSE, !.hAsked = TRUE]
      p == NewPcId(k)
      k1 == AddPc(k, p, NewPc("header", Nil))
      k2 == [k1 EXCEPT !.pcs[p].localDesc = OfferOf(p), !.pcs[p].gather = TRUE]
  IN /\ ~k0.mounted
     /\ UNCHANGED inbox
     /\ Commit(c, IF selectedUser \notin k0.onlineUsers
                    THEN [k0 EXCEPT !.offlineNotice = TRUE]
                  ELSE IF ok THEN callUser(k2, c, selectedUser, OfferOf(p))
                  ELSE k1)

\* the dismiss button of ChatHeader's error line: setPermissionError(null)
DismissError(c) ==
  LET k == Begin(c)
  IN /\ k.offlineNotice
     /\ UNCHANGED inbox
     /\ Commit(c, [k EXCEPT !.offlineNotice = FALSE])

\* handleEndCall: stop the tracks of localStream, close peerConnection, reset
\* the component's error states, endCall()
handleEndCall(k) ==
  LET k1 == StopStream(k, k.localStream)
      k2 == ClosePc(k1, k.peerConnection)
  IN endCall([k2 EXCEPT !.mediaError = FALSE, !.connectionError = FALSE,
                        !.statusConnected = FALSE])

\* what ends a session is recorded when there was one; hOver: a session has
\* ended since the tab's last invite and a timeout armed by callUser is still
\* to fire
Ended(k0, k, how) ==
  IF k0.from # Nil \/ k0.mounted
    THEN [k EXCEPT !.hEnd = how, !.hOver = k.timers > 0]
    ELSE k

\* the Decline button of the incoming-call dialog: rejectCall(); handleEndCall()
ClickDecline(c) ==
  LET k == Begin(c)
  IN /\ k.mounted /\ k.receivingCall /\ ~k.callAccepted
     /\ UNCHANGED inbox
     /\ Commit(c, Ended(k, handleEndCall(rejectCall(k)), "hangup"))

\* the Answer button of the incoming-call dialog, enabled when no media request
\* is loading and there is no media error:
\* answerCall(peerConnection.localDescription)
ClickAnswer(c) ==
  LET k == Begin(c)
  IN /\ k.mounted /\ k.receivingCall /\ ~k.callAccepted
     /\ ~k.isLoadingMedia /\ ~k.mediaError /\ ~k.permissionDenied
     /\ k.peerConnection # NoPc
     /\ UNCHANGED inbox
     /\ Commit(c, answerCall(k, k.pcs[k.peerConnection].localDesc))

\* the End Call button of the active call interface: handleEndCall
ClickEndCall(c) ==
  LET k == Begin(c)
  IN /\ k.mounted /\ k.callAccepted /\ ~k.callEnded
     /\ UNCHANGED inbox
     /\ Commit(c, Ended(k, handleEndCall(k), "hangup"))

\* ---- timers and completions of asynchronous work
\* the setTimeout callback armed by callUser, 15 s later
InviteTimeout(c) ==
  LET k == [Begin(c) EXCEPT !.timers = @ - 1, !.hOver = @ /\ cl[c].timers > 1]
  IN /\ cl[c].timers > 0
     /\ UNCHANGED inbox
     /\ Commit(c, IF ~k.callAccepted /\ ~k.callEnded
                    THEN Ended(k, endCall(k), "timeout")
                    ELSE k)

\* what getUserMedia can answer: a stream, or an error of the three kinds
\* handleMediaError tells apart
MediaResults == {"ok", "denied", "overconstrained", "other"}

\* a getMediaWithErrorHandling call of the mounted VideoCall, made by the
\* render whose retryAttempts is g, settles: ok = the stream (setLocalStream),
\* else handleMediaError; finally setIsLoadingMedia(false)
MediaDone(c, res, g) ==
  LET k == [Begin(c) EXCEPT !.reqs = Del(@, g), !.isLoadingMedia = FALSE]
      s == NewStreamId(k)
  IN /\ Has(cl[c].reqs, g)
     /\ UNCHANGED inbox
     /\ Commit(c, mediaSettled(k, res, g, s))

\* getMediaWithErrorHandling of a VideoCall that has unmounted settles: the
\* stream is acquired, the setters of the unmounted instance do nothing, but
\* handleMediaError still arms its retry timer
OrphanMediaDone(c, res, g) ==
  LET k == [Begin(c) EXCEPT !.reqOld = Del(@, g)]
      s == NewStreamId(k)
  IN /\ Has(cl[c].reqOld, g)
     /\ UNCHANGED inbox
     /\ Commit(c, IF res = "ok" THEN [k EXCEPT !.live = @ \cup {s}]
                  ELSE IF res = "overconstrained" /\ g < MAX_RETRY_ATTEMPTS
                    THEN [k EXCEPT !.retryOld = Ins(@, g)]
                    ELSE k)

\* the 1 s timer armed by handleMediaError of generation g fires:
\* setRetryAttempts(prev => prev + 1) and getMediaWithErrorHandling(relaxed
\* constraints) of that generation; the commit re-runs the media effect, which
\* requests media once more. hRetries counts the timer's own request
MediaRetryTimer(c, g) ==
  LET k == [Begin(c) EXCEPT !.retry = Del(@, g), !.retryAttempts = @ + 1,
                            !.hRetries = @ + 1]
  IN /\ Has(cl[c].retry, g)
     /\ UNCHANGED inbox
     /\ Commit(c, getMediaWithErrorHandling(k, g))

\* the same timer of a VideoCall that has unmounted: setRetryAttempts does
\* nothing, getUserMedia is called all the same
OrphanRetryTimer(c, g) ==
  LET k == [Begin(c) EXCEPT !.retryOld = Del(@, g), !.reqOld = Ins(@, g)]
  IN /\ Has(cl[c].retryOld, g)
     /\ UNCHANGED inbox
     /\ Commit(c, k)

\* retryMediaAccess, the button of ErrorDisplay (mediaError with canRetry) and
\* of PermissionRequest (incoming-call dialog): setRetryAttempts(0) and
\* getMediaWithErrorHandling() of the current render
retryMediaAccess(k) ==
  getMediaWithErrorHandling([k EXCEPT !.retryAttempts = 0, !.hRetries = 0],
                            k.retryAttempts)

ClickRetry(c) ==
  LET k == Begin(c)
  IN /\ k.mounted
     /\ \/ k.mediaError /\ k.canRetry /\ (k.receivingCall \/ k.callAccepted)
        \/ k.permissionDenied /\ k.receivingCall /\ ~k.callAccepted
     /\ UNCHANGED inbox
     /\ Commit(c, retryMediaAccess(k))

\* the candidate pc number p of a tab reports
CandOf(p) == 10 + p

\* setRemoteDescription as the browser decides it: an offer is accepted by a
\* connection without descriptions, an answer by one that has set its own offer
SetRemoteOk(pc, desc) ==
  /\ pc.open
  /\ pc.remoteDesc = NullSig
  /\ \/ desc.t = "offer" /\ pc.localDesc = NullSig
     \/ desc.t = "answer" /\ pc.localDesc.t = "offer"

\* the callee's chain on pc p: setRemoteDescription(callSignal), createAnswer,
\* setLocalDescription, answerCall(pc.localDescription); a rejection (the pc
\* was closed meanwhile) ends in setConnectionError. answerCall changes
\* callAccepted, so the commit that follows closes this pc; early = the pc
\* reports a candidate in between (onicecandidate sends it)
AnswerChain(k, p, early) ==
  LET pc == k.pcs[p]
      k1 == answerCall([k EXCEPT !.pcs[p].neg = "none",
                                 !.pcs[p].remoteDesc = pc.sig,
                                 !.pcs[p].localDesc = AnswerTo(pc.sig),
                                 !.pcs[p].gather = ~early],
                       AnswerTo(pc.sig))
  IN IF SetRemoteOk(pc, pc.sig)
       THEN IF early THEN sendIceCandidate(k1, CandOf(p), pc.to) ELSE k1
       ELSE [k EXCEPT !.pcs[p].neg = "none", !.connectionError = TRUE]

AnswerChainDone(c, p, early) ==
  LET k == Begin(c)
  IN /\ p \in DOMAIN k.pcs
     /\ k.pcs[p].neg = "answer"
     /\ UNCHANGED inbox
     /\ Commit(c, AnswerChain(k, p, early))

\* the caller's pc.setRemoteDescription(callSignal) on pc p settles
SetRemote(k, p) ==
  LET pc == k.pcs[p]
  IN IF SetRemoteOk(pc, pc.sig)
       THEN [k EXCEPT !.pcs[p].neg = "none", !.pcs[p].remoteDesc = pc.sig]
       ELSE [k EXCEPT !.pcs[p].neg = "none", !.connectionError = TRUE]

SetRemoteDone(c, p) ==
  LET k == Begin(c)
  IN /\ p \in DOMAIN k.pcs
     /\ k.pcs[p].neg = "remote"
     /\ UNCHANGED inbox
     /\ Commit(c, SetRemote(k, p))

\* pc p, open and with a local description, reports a candidate:
\* pc.onicecandidate sends it to caller.from; ChatHeader's pc has no handler
IceCandidateEvent(c, p) ==
  LET k == [Begin(c) EXCEPT !.pcs[p].gather = FALSE]
  IN /\ p \in DOMAIN cl[c].pcs
     /\ cl[c].pcs[p].open /\ cl[c].pcs[p].gather
     /\ UNCHANGED inbox
     /\ Commit(c, IF k.pcs[p].origin = "videocall"
                    THEN sendIceCandidate(k, CandOf(p), k.pcs[p].to)
                    ELSE k)

\* the browser reports connectionState / iceConnectionState 'failed' for pc p,
\* which it can do once the connection has both descriptions:
\* setCallStatus('failed') and setConnectionError(...), nothing else
PcFailed(c, p) ==
  LET k == Begin(c)
  IN /\ p \in DOMAIN cl[c].pcs
     /\ cl[c].pcs[p].open /\ cl[c].pcs[p].origin = "videocall"
     /\ cl[c].pcs[p].localDesc # NullSig /\ cl[c].pcs[p].remoteDesc # NullSig
     /\ cl[c].pcs[p].conn # "failed"
     /\ UNCHANGED inbox
     /\ Commit(c, [k EXCEPT !.pcs[p].conn = "failed", !.connectionError = TRUE,
                            !.statusConnected = FALSE])

\* handleReconnection() of a render whose isReconnecting is rec: it returns at
\* once when rec; else setIsReconnecting(true), setConnectionError('Connection
\* lost...') and the 2 s wait begins
handleReconnection(k, rec) ==
  IF rec THEN k
  ELSE [k EXCEPT !.isReconnecting = TRUE, !.connectionError = TRUE, !.reconn = @ + 1]

\* the browser reports 'disconnected' for pc p, which it can do once the
\* connection has both descriptions. onconnectionstatechange and
\* oniceconnectionstatechange each call the handleReconnection the effect run
\* that created the pc saw; twice = both ran before the next render. A change
\* of isReconnecting re-runs the peer connection effect, so the closure of an
\* open pc holds the current value
PcDisconnected(c, p, twice) ==
  LET k == [Begin(c) EXCEPT !.pcs[p].conn = "disconnected",
                            !.statusConnected = FALSE]
      k1 == handleReconnection(k, cl[c].isReconnecting)
  IN /\ p \in DOMAIN cl[c].pcs
     /\ cl[c].pcs[p].open /\ cl[c].pcs[p].origin = "videocall"
     /\ cl[c].pcs[p].localDesc # NullSig /\ cl[c].pcs[p].remoteDesc # NullSig
     /\ cl[c].pcs[p].conn = "new"
     /\ UNCHANGED inbox
     /\ Commit(c, IF twice THEN handleReconnection(k1, cl[c].isReconnecting) ELSE k1)

\* the Retry button of the connection error shown in the active call
\* interface: handleReconnection of the current render
ClickReconnect(c) ==
  LET k == Begin(c)
  IN /\ k.mounted /\ k.callAccepted /\ ~k.callEnded
     /\ k.connectionError
     /\ UNCHANGED inbox
     /\ Commit(c, handleReconnection(k, k.isReconnecting))

\* handleReconnection after its 2 s wait, the VideoCall still mounted: without
\* a connected socket setSocketError, else setConnectionError(null) and
\* setCallStatus('connected'); finally setIsReconnecting(false). The
\* localStream of its closure is never null (a render without a stream has no
\* peer connection and shows no connection error), so media is not requested
ReconnectWaitDone(c) ==
  LET k == [Begin(c) EXCEPT !.reconn = @ - 1, !.isReconnecting = FALSE]
  IN /\ cl[c].reconn > 0
     /\ UNCHANGED inbox
     /\ Commit(c, IF k.sockConnected
                    THEN [k EXCEPT !.connectionError = FALSE, !.statusConnected = TRUE]
                  ELSE [k EXCEPT !.socketError = TRUE])

\* handleReconnection after its 2 s wait when the call has ended and the
\* VideoCall has unmounted meanwhile: nothing cancels the wait, the
\* continuation tests socket.connected and calls setSocketError or
\* setConnectionError(null) and setCallStatus('connected'), then
\* setIsReconnecting(false) (hLate); React ignores the setters of the unmounted
\* instance
OrphanReconnectDone(c) ==
  LET k == [Begin(c) EXCEPT !.reconnOld = @ - 1, !.hLate = TRUE]
  IN /\ cl[c].reconnOld > 0
     /\ UNCHANGED inbox
     /\ Commit(c, k)

\* the socket reports 'error' or 'disconnect': a mounted VideoCall's
\* handleSocketError / handleDisconnect call setSocketError, nothing else
SocketLost(c, ev) ==
  LET k == Begin(c)
  IN /\ k.sockConnected
     /\ UNCHANGED inbox
     /\ Commit(c, [k EXCEPT !.sockConnected = (ev = "error"),
                            !.socketError = k.mounted])

\* the store's socket, open and not connected, connects: for the first time
\* (fires = FALSE), or again after a loss; fires = the socket emits 'reconnect'
\* (version 2 of the library does, later ones emit it on the manager only),
\* for which a mounted VideoCall calls setSocketError(null)
SocketReconnect(c, fires) ==
  LET k == Begin(c)
  IN /\ k.sockOpen /\ ~k.sockConnected
     /\ UNCHANGED inbox
     /\ Commit(c, [k EXCEPT !.sockConnected = TRUE,
                            !.socketError = @ /\ ~fires])

\* ---- messages from the server
\* "iceCandidate": the store's listener does nothing; VideoCall's
\* handleIceCandidate, registered while peerConnection is set, calls
\* peerConnection.addIceCandidate, which rejects on a closed connection and on
\* one without a remote description (setConnectionError). A candidate that is
\* not applied is kept nowhere; hIceLost records it when the tab is in a call
\* (caller.from is set)
IceLost(k, candidate) ==
  IF k.from # Nil THEN k.hIceLost \cup {candidate} ELSE k.hIceLost
handleIceCandidate(k, candidate) ==
  IF k.mounted /\ k.peerConnection # NoPc
    THEN IF k.pcs[k.peerConnection].open /\ k.pcs[k.peerConnection].remoteDesc # NullSig
           THEN [k EXCEPT !.pcs[k.peerConnection].applied = Append(@, candidate)]
           ELSE [k EXCEPT !.connectionError = TRUE, !.hIceLost = IceLost(k, candidate)]
    ELSE [k EXCEPT !.hIceLost = IceLost(k, candidate)]

\* the client's reaction to one server message m. Events without a listener
\* change nothing: callFailed, of which hFailed records that it arrived while
\* the tab's invite was pending. getOnlineUsers replaces onlineUsers
OnMessage(k, m) ==
  CASE m.ev = "callUser" -> onCallUser(k, m.from, m.signal)
    [] m.ev = "callAccepted" -> onCallAccepted(k, m.signal)
    [] m.ev = "callEnded" -> Ended(k, onCallEnded(k), "remoteEnd")
    [] m.ev = "callRejected" -> Ended(k, onCallEnded(k), "remoteReject")
    [] m.ev = "iceCandidate" ->
         handleIceCandidate([k EXCEPT !.nIce = @ + 1], m.signal)
    [] m.ev = "callFailed" ->
         [k EXCEPT !.hFailed = @ \/ (k.hInvite /\ k.from # Nil /\ ~k.callAccepted
                                       /\ ~k.callEnded)]
    [] m.ev = "getOnlineUsers" -> [k EXCEPT !.onlineUsers = m.users]
    [] OTHER -> k

\* a message arrives from a relay outside the model
RecvCallUser(c, from, signal) ==
  /\ ~wired /\ UNCHANGED inbox
  /\ Commit(c, OnMessage(Begin(c), Emit(NoSock, "callUser", signal, from, from)))

RecvCallAccepted(c, signal) ==
  /\ ~wired /\ UNCHANGED inbox
  /\ Commit(c, OnMessage(Begin(c), Emit(NoSock, "callAccepted", signal, Nil, Nil)))

RecvCallEnded(c) ==
  /\ ~wired /\ UNCHANGED inbox
  /\ Commit(c, OnMessage(Begin(c), Emit(NoSock, "callEnded", Nil, Nil, Nil)))

RecvCallRejected(c) ==
  /\ ~wired /\ UNCHANGED inbox
  /\ Commit(c, OnMessage(Begin(c), Emit(NoSock, "callRejected", Nil, Nil, Nil)))

\* the server's answer to a callUser whose target has no entry in the map
RecvCallFailed(c) ==
  /\ ~wired /\ UNCHANGED inbox
  /\ Commit(c, OnMessage(Begin(c),
                         Emit(NoSock, "callFailed", "User is offline", Nil, Nil)))

\* the presence list the server broadcasts after a connection or a
\* disconnection: the keys of its map
RecvOnlineUsers(c, users) ==
  /\ ~wired /\ UNCHANGED inbox
  /\ Commit(c, OnMessage(Begin(c),
                         [Emit(NoSock, "getOnlineUsers", Nil, Nil, Nil) EXCEPT
                            !.users = users]))

\* the n-th candidate the client receives is candidate n
RecvIceCandidate(c) ==
  /\ ~wired /\ UNCHANGED inbox
  /\ Commit(c, OnMessage(Begin(c),
                         Emit(NoSock, "iceCandidate", cl[c].nIce + 1, Nil, Nil)))

\* the next message of client c's socket is dispatched to its listeners
Deliver(c) ==
  /\ wired /\ inbox[c] # <<>>
  /\ inbox' = [inbox EXCEPT ![c] = Tail(@)]
  /\ Commit(c, OnMessage(Begin(c), Head(inbox[c])))

\* the server handles the oldest message a client emitted, on the socket of
\* that client
Req == Head(toServer).msg
ReqSock == CHOOSE s \in connected : sockUser[s] = Head(toServer).sender
ServeCallUser ==
  /\ wired /\ toServer # <<>> /\ Req.ev = "callUser"
  /\ OnCallUser(ReqSock, Req.to, Req.signal, Req.from, Req.name)
ServeAnswerCall ==
  /\ wired /\ toServer # <<>> /\ Req.ev = "answerCall"
  /\ OnAnswerCall(ReqSock, Req.to, Req.signal)
ServeIceCandidate ==
  /\ wired /\ toServer # <<>> /\ Req.ev = "iceCandidate"
  /\ OnIceCandidate(ReqSock, Req.to, Req.signal)
ServeEndCall ==
  /\ wired /\ toServer # <<>> /\ Req.ev = "endCall"
  /\ OnEndCall(ReqSock, Req.to)
ServeRejectCall ==
  /\ wired /\ toServer # <<>> /\ Req.ev = "rejectCall"
  /\ OnRejectCall(ReqSock, Req.to)

\* const userSocketMap = {}: no socket has connected
InitServer ==
  /\ userSocketMap = <<>>
  /\ connected = {}
  /\ sockUser = <<>>
  /\ nextSid = 1
  /\ srvOut = <<>>
  /\ srvEv = SrvEvent("none", NoSock, Nil, Nil, Nil, Nil, Nil)
  /\ lastReg = [u \in Users |-> [kind |-> "none", sid |-> NoSock]]

\* every tab logged in, no call yet
InitClients ==
  /\ cl = [c \in Users |-> IdleClient]
  /\ toServer = <<>>
  /\ inbox = [c \in Users |-> <<>>]

Init == InitServer /\ InitClients /\ wired = FALSE

\* the relay alone, with sockets that send any signaling message
NextServer ==
  \/ \E u \in Users \cup {NoUser} : Connection(u)
  \/ \E s \in Sids : Disconnect(s)
  \/ \E s \in Sids, t \in Targets, p \in Payloads, f \in Users :
       OnCallUser(s, t, p, f, f)
  \/ \E s \in Sids, t \in Targets, p \in Payloads : OnAnswerCall(s, t, p)
  \/ \E s \in Sids, t \in Targets, p \in Payloads : OnIceCandidate(s, t, p)
  \/ \E s \in Sids, t \in Targets : OnEndCall(s, t)
  \/ \E s \in Sids, t \in Targets : OnRejectCall(s, t)

SpecServer == Init /\ [][NextServer]_vars

\* one client (u1) with its user, its browser and a relay that delivers any
\* message a socket can send through the server, an invite without from
\* included (the server forwards from as the sender wrote it)
Me == "u1"
Next ==
  \/ \E u \in Users \ {Me}, ok \in BOOLEAN : handleCallUser(Me, u, ok)
  \/ ClickDecline(Me)
  \/ ClickAnswer(Me)
  \/ ClickEndCall(Me)
  \/ InviteTimeout(Me)
  \* getUserMedia answers here with a stream or with an error that arms no
  \* retry timer; the retrying answers are explored in SpecMedia.
  \/ \E res \in {"ok", "other"} : MediaDone(Me, res, 0)
  \/ \E res \in {"ok", "other"} : OrphanMediaDone(Me, res, 0)
  \/ \E p \in 1..MaxPcs, early \in BOOLEAN : AnswerChainDone(Me, p, early)
  \/ \E p \in 1..MaxPcs : SetRemoteDone(Me, p)
  \/ \E p \in 1..MaxPcs : IceCandidateEvent(Me, p)
  \/ \E p \in 1..MaxPcs : PcFailed(Me, p)
  \/ \E u \in (Users \ {Me}) \cup {Nil}, o \in RemoteOffers : RecvCallUser(Me, u, o)
  \/ \E a \in RemoteAnswers : RecvCallAccepted(Me, a)
  \/ RecvCallEnded(Me)
  \/ RecvCallRejected(Me)
  \/ RecvCallFailed(Me)
  \/ RecvIceCandidate(Me)

Spec == Init /\ [][Next]_vars

\* two clients and the server: u1 and u2 have logged in, each on one socket
\* (io.on("connection") ran for u1, then for u2), every message travels
\* through the server's handlers, and it is u1 who invites
InitCall ==
  /\ userSocketMap = Register(Register(<<>>, "u1", 1), "u2", 2)
  /\ connected = {1, 2}
  /\ sockUser = <<"u1", "u2">>
  /\ nextSid = 3
  /\ srvOut = Broadcast({1, 2}, Register(Register(<<>>, "u1", 1), "u2", 2), "u2")
  /\ srvEv = SrvEvent("connection", 2, "u2", Nil, Nil, Nil, Nil)
  /\ lastReg = [u \in Users |-> [kind |-> "connect", sid |-> userSocketMap[u]]]
  /\ InitClients
  /\ wired = TRUE

\* the tab that invites and the tab that is invited
A == "u1"
B == "u2"
NextCall ==
  \/ \E ok \in BOOLEAN : handleCallUser(A, B, ok)
  \/ \E c \in Users : ClickDecline(c)
  \/ \E c \in Users : ClickAnswer(c)
  \/ \E c \in Users : ClickEndCall(c)
  \/ \E c \in Users : InviteTimeout(c)
  \/ \E c \in Users, res \in {"ok", "other"} : MediaDone(c, res, 0)
  \/ \E c \in Users, res \in {"ok", "other"} : OrphanMediaDone(c, res, 0)
  \/ \E c \in Users, p \in 1..MaxPcs, early \in BOOLEAN : AnswerChainDone(c, p, early)
  \/ \E c \in Users, p \in 1..MaxPcs : SetRemoteDone(c, p)
  \/ \E c \in Users, p \in 1..MaxPcs : IceCandidateEvent(c, p)
  \/ \E c \in Users : Deliver(c)
  \/ ServeCallUser
  \/ ServeAnswerCall
  \/ ServeIceCandidate
  \/ ServeEndCall
  \/ ServeRejectCall

SpecCall == InitCall /\ [][NextCall]_vars

\* the tab that is invited (u1) and its media: every answer getUserMedia can
\* give to the requests of the VideoCall the invite mounts, the retry timers
\* and the user's buttons of the incoming-call dialog
NextMedia ==
  \/ \E o \in {x \in RemoteOffers : x.id = 1} : RecvCallUser(Me, "u2", o)
  \/ ClickDecline(Me)
  \/ ClickAnswer(Me)
  \/ ClickRetry(Me)
  \/ \E res \in MediaResults, g \in 0..MaxAuto : MediaDone(Me, res, g)
  \/ \E res \in MediaResults, g \in 0..MaxAuto : OrphanMediaDone(Me, res, g)
  \/ \E g \in 0..MaxAuto : MediaRetryTimer(Me, g)
  \/ \E g \in 0..MaxAuto : OrphanRetryTimer(Me, g)
  \/ \E p \in 1..MaxPcs, early \in BOOLEAN : AnswerChainDone(Me, p, early)

SpecMedia == Init /\ [][NextMedia]_vars

\* the tab that is invited (u1), by u2 or by an invite without from, with the
\* events of its peer connection and of its socket, the reconnection waits
\* and the user's buttons; getUserMedia answers with a stream or with an
\* error that arms no retry
NextRecover ==
  \/ \E u \in {"u2", Nil}, o \in {x \in RemoteOffers : x.id = 1} : RecvCallUser(Me, u, o)
  \/ ClickDecline(Me)
  \/ ClickAnswer(Me)
  \/ ClickEndCall(Me)
  \/ ClickReconnect(Me)
  \* getUserMedia answers here with a stream or with an error that arms no
  \* retry timer; the retrying answers are explored in SpecMedia.
  \/ \E res \in {"ok", "other"} : MediaDone(Me, res, 0)
  \/ \E res \in {"ok", "other"} : OrphanMediaDone(Me, res, 0)
  \/ \E p \in 1..MaxPcs, early \in BOOLEAN : AnswerChainDone(Me, p, early)
  \/ \E p \in 1..MaxPcs, twice \in BOOLEAN : PcDisconnected(Me, p, twice)
  \/ ReconnectWaitDone(Me)
  \/ OrphanReconnectDone(Me)
  \/ \E ev \in {"error", "disconnect"} : SocketLost(Me, ev)
  \/ \E fires \in BOOLEAN : SocketReconnect(Me, fires)
  \/ RecvCallEnded(Me)
  \/ RecvIceCandidate(Me)

SpecRecover == Init /\ [][NextRecover]_vars

\* the tab that invites (u1) with the presence lists it receives: the user
\* selects u2 or u3, an id that never connects, and calls
NextPresence ==
  \/ \E u \in Targets \ {Me}, ok \in BOOLEAN : handleCallUser(Me, u, ok)
  \/ \E on \in SUBSET Users : RecvOnlineUsers(Me, on)
  \/ DismissError(Me)
  \/ InviteTimeout(Me)
  \/ ClickEndCall(Me)
  \/ \E a \in {x \in RemoteAnswers : x # NullSig} : RecvCallAccepted(Me, a)
  \/ RecvCallRejected(Me)
  \/ \E res \in {"ok", "other"} : MediaDone(Me, res, 0)
  \/ \E p \in 1..MaxPcs : SetRemoteDone(Me, p)
  \/ \E p \in 1..MaxPcs : IceCandidateEvent(Me, p)

SpecPresence == Init /\ [][NextPresence]_vars

\* one tab (u1) from before its login: the calls of checkAuth, login, signup
\* and logout in any order and with either outcome, its socket connecting and
\* losing the connection, and what arrives on a connected socket
InitAuth ==
  /\ InitServer
  /\ cl = [c \in Users |-> LoggedOut]
  /\ toServer = <<>>
  /\ inbox = [c \in Users |-> <<>>]
  /\ wired = FALSE

NextAuth ==
  \/ \E ok \in BOOLEAN : checkAuth(Me, ok)
  \/ \E ok \in BOOLEAN : login(Me, ok)
  \/ \E ok \in BOOLEAN : signup(Me, ok)
  \/ \E ok \in BOOLEAN : logout(Me, ok)
  \/ SocketReconnect(Me, FALSE)
  \/ \E ev \in {"error", "disconnect"} : SocketLost(Me, ev)
  \/ \E on \in SUBSET Users : cl[Me].sockConnected /\ RecvOnlineUsers(Me, on)
  \/ \E o \in {x \in RemoteOffers : x.id = 1} :
       cl[Me].sockConnected /\ RecvCallUser(Me, "u2", o)
  \/ ClickDecline(Me)
  \/ MediaDone(Me, "ok", 0)
  \/ OrphanMediaDone(Me, "ok", 0)

SpecAuth == InitAuth /\ [][NextAuth]_vars

\* ----------------------------------------------------------- server claims
SignalingOps == {"callUser", "answerCall", "iceCandidate", "endCall", "rejectCall"}

\* C1: for every sequence of connections and disconnections, looking a user id
\* up in userSocketMap yields the socket id of that id's most recent
\* connection, or nothing when the most recent event for the id was a
\* disconnection.
C1_LookupIsMostRecent ==
  \A u \in Users :
    getReceiverSocketId(userSocketMap, u) =
      IF lastReg[u].kind = "connect" THEN lastReg[u].sid ELSE NoSock

\* a user id connected twice, then one of its sockets disconnected: the lookup
\* finds nothing although another socket of the id is still connected
C1_Witness ==
  \E u \in Users :
    /\ lastReg[u].kind = "disconnect"
    /\ \E s \in connected : sockUser[s] = u
    /\ getReceiverSocketId(userSocketMap, u) = NoSock

\* C2: a user id present in userSocketMap maps to a socket that is still
\* connected, and a user id absent from it has no socket that is still
\* connected, also when the id connected through several sockets.
C2_PresentIffReachable ==
  \A u \in Users :
    /\ u \in DOMAIN userSocketMap => userSocketMap[u] \in connected
    /\ u \notin DOMAIN userSocketMap => ~ \E s \in connected : sockUser[s] = u

\* C3: a callUser whose target is not in userSocketMap forwards nothing and
\* emits exactly one callFailed, to the sending socket and to no other.
C3_OfflineInviteFails ==
  (srvEv.op = "callUser" /\ srvEv.target \notin DOMAIN userSocketMap) =>
    /\ Len(srvOut) = 1
    /\ srvOut[1].ev = "callFailed"
    /\ srvOut[1].to = srvEv.sock

\* an invite to a user id that is absent from the map while one of its sockets
\* is still connected
C3_Witness ==
  /\ srvEv.op = "callUser"
  /\ srvEv.target \notin DOMAIN userSocketMap
  /\ \E s \in connected : sockUser[s] = srvEv.target /\ s # srvEv.sock
  /\ Len(srvOut) = 1

\* C4: for every kind of signaling message, a target absent from userSocketMap
\* makes the server send callFailed back to the sender.
C4_OfflineAlwaysCallFailed ==
  (srvEv.op \in SignalingOps /\ srvEv.target \notin DOMAIN userSocketMap) =>
    \E i \in 1..Len(srvOut) : srvOut[i].ev = "callFailed" /\ srvOut[i].to = srvEv.sock

\* C5: a signaling message whose target is in userSocketMap is delivered
\* exactly once, as the corresponding event with the sender's payload
\* unchanged, to the socket mapped to the target, which is connected, and to
\* no other socket.
C5_ForwardedToMappedSocket ==
  (srvEv.op \in SignalingOps /\ srvEv.target \in DOMAIN userSocketMap) =>
    /\ srvOut = <<Emit(userSocketMap[srvEv.target], ForwardedAs(srvEv.op),
                       srvEv.signal, srvEv.from, srvEv.name)>>
    /\ userSocketMap[srvEv.target] \in connected

\* a message routed to a user id whose older, overwritten socket is still
\* connected
C5_Witness ==
  /\ srvEv.op \in SignalingOps
  /\ srvEv.target \in DOMAIN userSocketMap
  /\ \E s \in connected :
       sockUser[s] = srvEv.target /\ s # userSocketMap[srvEv.target]
  /\ Len(srvOut) = 1

\* C6: every connection and every disconnection is followed, in the same
\* handler, by exactly one getOnlineUsers message to each connected socket,
\* carrying the key set of userSocketMap as the handler's mutation left it.
C6_BroadcastAfterMutation ==
  srvEv.op \in {"connection", "disconnect"} =>
    /\ Len(srvOut) = Cardinality(connected)
    /\ {srvOut[i].to : i \in 1..Len(srvOut)} = connected
    /\ \A i \in 1..Len(srvOut) :
         srvOut[i].ev = "getOnlineUsers" /\ srvOut[i].users = DOMAIN userSocketMap

\* a disconnection that removed a key, broadcast to two remaining sockets
C6_Witness ==
  /\ srvEv.op = "disconnect"
  /\ srvEv.user \in Users
  /\ Cardinality(connected) = 2
  /\ Len(srvOut) = 2

\* ----------------------------------------------------------- client claims
\* C7: every iceCandidate message a client in a call receives before a remote
\* description is applied to its peer connection, also before the VideoCall
\* component has a peer connection, is kept until it can be applied: no
\* candidate received is dropped.
C7_NoCandidateDropped ==
  \A c \in Users : cl[c].hIceLost = {}

\* C8: a client is in the active call state (callAccepted and not callEnded)
\* only after it sent an invite and received callAccepted for it, or received
\* an invite and answered it; a callAccepted arriving without an outgoing
\* invite pending does not make the client active.
C8_ActiveOnlyAfterHandshake ==
  \A c \in Users :
    (cl[c].callAccepted /\ ~cl[c].callEnded) => cl[c].hHow \in {"accepted", "answered"}

\* C9: after a call has ended, by the caller's timeout, a local hang-up, a
\* remote callEnded or a remote callRejected, every media track the tab
\* acquired is stopped and every RTCPeerConnection it created, ChatHeader's
\* included, is closed.
C9_EndReleasesEverything ==
  \A c \in Users :
    cl[c].hEnd # "none" =>
      /\ cl[c].live = {} /\ cl[c].lostStreams = 0
      /\ cl[c].lostPcs = 0
      /\ \A p \in DOMAIN cl[c].pcs : ~cl[c].pcs[p].open

\* nothing is in flight and no asynchronous work of a tab is pending
Quiet ==
  /\ toServer = <<>>
  /\ \A c \in Users :
       /\ inbox[c] = <<>>
       /\ cl[c].reqs = <<>>
       /\ \A p \in DOMAIN cl[c].pcs : cl[c].pcs[p].neg = "none" /\ ~cl[c].pcs[p].gather

\* C10: when A has invited B, B has answered, A has received B's answer and
\* both tabs have their camera stream, both sides exchange at least one ice
\* candidate: once nothing more is in flight, each of the two has received a
\* candidate of the other.
C10_BothReceiveCandidate ==
  ( /\ Quiet
    /\ cl[A].hHow = "accepted" /\ cl[B].hHow = "answered"
    /\ cl[A].callSignal.t = "answer"
    /\ \A c \in {A, B} : cl[c].localStream \in cl[c].live /\ ~cl[c].mediaError ) =>
    (cl[A].nIce >= 1 /\ cl[B].nIce >= 1)

\* the handler that just ran emitted a message of kind ev
Sends(k, ev) == \E i \in 1..Len(k.out) : k.out[i].ev = ev

\* the invite the tab sent is neither answered nor ended
Unanswered(k) == k.hInvite /\ k.from # Nil /\ ~k.callAccepted /\ ~k.callEnded

\* C11: when the 15-second timeout fires while the invite is still
\* unanswered, the caller's session ends and the caller sends no message to
\* the callee: no endCall is emitted.
C11_TimeoutSendsNothing ==
  [][\A c \in Users :
       (InviteTimeout(c) /\ Unanswered(cl[c])) =>
         (cl'[c].callEnded /\ cl'[c].out = <<>>)]_vars

\* the tab has a session: a remote party, an incoming call or an active call
NonIdle(k) == k.from # Nil \/ k.receivingCall \/ (k.callAccepted /\ ~k.callEnded)

\* C13: a callUser message arriving at a client that is not idle (calling,
\* ringing, connecting or active) does not overwrite the remote party
\* (caller), the stored description (callSignal) or the flags of the session
\* in progress.
C13_InviteKeepsSession ==
  [][\A c \in Users, u \in Users, o \in RemoteOffers :
       (RecvCallUser(c, u, o) /\ NonIdle(cl[c])) =>
         /\ cl'[c].from = cl[c].from
         /\ cl'[c].callSignal = cl[c].callSignal
         /\ cl'[c].receivingCall = cl[c].receivingCall
         /\ cl'[c].callAccepted = cl[c].callAccepted
         /\ cl'[c].callEnded = cl[c].callEnded]_vars

\* C14: while an incoming call rings and is not accepted, the tab has not
\* started local media capture: no getUserMedia request is in flight and no
\* stream has been acquired for the call.
C14_NoMediaBeforeAccept ==
  \A c \in Users :
    (cl[c].receivingCall /\ ~cl[c].callAccepted) =>
      (cl[c].reqs = <<>> /\ cl[c].localStream = NoStream)

\* C15: a callee emits answerCall only when the local user accepts the call
\* (the Answer button); no other step of a tab sends an answer.
C15_AnswerOnlyOnAccept ==
  [][\A c \in Users :
       (cl'[c] # cl[c] /\ Sends(cl'[c], "answerCall")) => ClickAnswer(c)]_vars

\* C16: when a callee declines a ringing call, exactly one rejectCall is sent,
\* to the inviter, no endCall is sent, and the callee's session is over:
\* receivingCall false, caller empty, callSignal null.
C16_DeclineSendsOneReject ==
  [][\A c \in Users :
       (ClickDecline(c) /\ cl[c].from # Nil) =>
         /\ cl'[c].out = <<CMsg("rejectCall", cl[c].from, Nil, Nil, Nil)>>
         /\ ~cl'[c].receivingCall
         /\ cl'[c].from = Nil
         /\ cl'[c].callSignal = NullSig]_vars

\* a ringing call was declined: the tab has just sent rejectCall and is idle
C16_Witness ==
  \E c \in Users :
    /\ Sends(cl[c], "rejectCall")
    /\ cl[c].hEnd = "hangup"
    /\ ~cl[c].mounted

\* C17: when the state of a tab's peer connection has become failed, the
\* session is over: the connection is closed, the local media is released
\* and the call state is reset (callEnded).
C17_FailedEndsSession ==
  \A c \in Users : \A p \in DOMAIN cl[c].pcs :
    cl[c].pcs[p].conn = "failed" =>
      /\ ~cl[c].pcs[p].open
      /\ cl[c].localStream \notin cl[c].live
      /\ cl[c].callEnded

\* C18: a tab that hangs up sends exactly one endCall, to the remote party of
\* its session (none when the session has no remote party); and once the
\* remote party has ended or rejected the call, no later step of the tab
\* sends endCall for it.
C18_OneEndCallUnlessRemoteEnded ==
  [][\A c \in Users :
       /\ ClickEndCall(c) =>
            cl'[c].out = IF cl[c].from # Nil
                           THEN <<CMsg("endCall", cl[c].from, Nil, Nil, Nil)>>
                           ELSE <<>>
       /\ (cl[c].hEnd \in {"remoteEnd", "remoteReject"} /\ cl'[c] # cl[c]) =>
            ~Sends(cl'[c], "endCall")]_vars

\* the user has hung up an active call with a remote party: one endCall went
\* out
C18_Witness ==
  \E c \in Users :
    /\ cl[c].hEnd = "hangup"
    /\ cl[c].out = <<CMsg("endCall", "u2", Nil, Nil, Nil)>>
    /\ cl[c].callEnded

\* C19: the timeout armed by an invite is cancelled when the invite's session
\* has ended: a timer that fires after the session has ended changes no
\* state and sends no message, also when an incoming call is ringing.
C19_StaleTimerDoesNothing ==
  [][\A c \in Users :
       (InviteTimeout(c) /\ cl[c].hOver) =>
         [cl'[c] EXCEPT !.hOver = FALSE] =
           [cl[c] EXCEPT !.timers = @ - 1, !.out = <<>>, !.hOver = FALSE]]_vars

\* C20: a caller that receives callFailed for its pending invite reacts to
\* it: it leaves the calling state (the invite is no longer pending).
C20_CallFailedEndsCalling ==
  \A c \in Users : cl[c].hFailed => ~Unanswered(cl[c])

\* the invite the tab sent has met no answer, reject or end, and no incoming
\* invite has replaced it
Calling(k) == k.hInvite /\ k.from # Nil /\ ~k.receivingCall /\ ~k.callAccepted

\* C21: every invite's timeout takes effect, also for an invite sent after an
\* earlier call of the tab has ended: when the invite's own timer (the last
\* one pending) fires and nothing has answered, rejected or ended the invite,
\* the session ends and caller is cleared.
C21_TimeoutEndsEveryInvite ==
  [][\A c \in Users :
       (InviteTimeout(c) /\ cl[c].timers = 1 /\ Calling(cl[c])) =>
         (cl'[c].callEnded /\ cl'[c].from = Nil)]_vars

\* C22: whenever callUser starts an outgoing session, the session starts with
\* callAccepted false and callEnded false, whatever way earlier sessions
\* ended.
C22_InviteStartsFresh ==
  [][\A c \in Users, u \in Users :
       handleCallUser(c, u, TRUE) =>
         (~cl'[c].callAccepted /\ ~cl'[c].callEnded)]_vars

\* C23: when a caller in the calling state has received callAccepted with an
\* answer, the answer is applied as the remote description of a peer
\* connection of the caller: once the tab has its stream and no work is
\* pending, a connection of the tab holds the answer.
C23_AnswerApplied ==
  \A c \in Users :
    ( /\ Quiet
      /\ cl[c].hHow = "accepted" /\ cl[c].callAccepted /\ ~cl[c].receivingCall
      /\ cl[c].callSignal.t = "answer"
      /\ cl[c].localStream \in cl[c].live /\ ~cl[c].mediaError ) =>
      \E p \in DOMAIN cl[c].pcs : cl[c].pcs[p].remoteDesc = cl[c].callSignal

\* C24: once a tab has sent its description, every candidate the connection
\* that produced the description discovers is sent as an iceCandidate message
\* to the remote party of the session.
C24_CandidatesOfSentDescription ==
  [][\A c \in Users, p \in 1..MaxPcs :
       (IceCandidateEvent(c, p) /\ cl[c].pcs[p].localDesc # NullSig
          /\ cl[c].from # Nil) =>
         cl'[c].out = <<CMsg("iceCandidate", cl[c].from, CandOf(p), Nil, Nil)>>]_vars

\* C30: when applying the remote description or creating the answer fails on
\* the open peer connection of a mounted VideoCall, the call is aborted: the
\* session reaches ended and a local error is shown.
C30_NegotiationErrorAborts ==
  [][\A c \in Users, p \in 1..MaxPcs :
       ( /\ \/ SetRemoteDone(c, p)
            \/ \E early \in BOOLEAN : AnswerChainDone(c, p, early)
         /\ cl[c].mounted /\ cl[c].pcs[p].open
         /\ ~SetRemoteOk(cl[c].pcs[p], cl[c].pcs[p].sig) ) =>
         (cl'[c].callEnded /\ ~cl'[c].mounted)]_vars

\* C25: a reconnection attempt is cancelled when the session ends: the
\* continuation of a handleReconnection wait whose call has ended does not
\* run its steps (no setCallStatus('connected'), no error set or cleared).
C25_EndCancelsReconnection ==
  \A c \in Users : ~cl[c].hLate

\* C26: a local hang-up (handleEndCall, from the End Call and the Decline
\* button) stops the local tracks, closes the VideoCall's peer connection and
\* leaves no timer of the call pending: not the 15 s timeout of the invite
\* that led to the call, no 2 s reconnection wait, no 1 s media retry.
C26_HangUpCancelsTimers ==
  [][\A c \in Users :
       (ClickEndCall(c) \/ ClickDecline(c)) =>
         /\ cl[c].localStream \notin cl'[c].live
         /\ \A q \in DOMAIN cl'[c].pcs :
              cl'[c].pcs[q].origin = "videocall" => ~cl'[c].pcs[q].open
         /\ cl[c].hHow = "accepted" => cl'[c].timers = 0
         /\ cl'[c].reconnOld = cl[c].reconnOld
         /\ cl'[c].retryOld = cl[c].retryOld]_vars

\* C27: when the socket of a tab in an active call reports an error or a
\* disconnect, the call is torn down locally: the VideoCall is gone, its
\* local media stopped, its peer connection closed, and the call state reset.
C27_SocketLossTearsDown ==
  [][\A c \in Users :
       ( /\ \E ev \in {"error", "disconnect"} : SocketLost(c, ev)
         /\ cl[c].mounted /\ cl[c].callAccepted /\ ~cl[c].callEnded ) =>
         /\ ~cl'[c].mounted
         /\ cl'[c].callEnded
         /\ cl[c].localStream \notin cl'[c].live
         /\ \A q \in DOMAIN cl'[c].pcs :
              cl'[c].pcs[q].origin = "videocall" => ~cl'[c].pcs[q].open]_vars

\* C28: while the permission-denied failure of getUserMedia stands
\* (permissionDenied), no getUserMedia attempt is made without a user action,
\* and the error shown is marked canRetry false.
C28_DeniedIsTerminal ==
  [][\A c \in Users :
       cl[c].permissionDenied =>
         /\ cl[c].mediaError /\ ~cl[c].canRetry
         /\ cl'[c].hRetries <= cl[c].hRetries]_vars

\* C29: the retries of getUserMedia that a VideoCall makes without a user
\* action after OverconstrainedError number at most MAX_RETRY_ATTEMPTS.
C29_RetriesBounded ==
  \A c \in Users : cl[c].hRetries <= MAX_RETRY_ATTEMPTS

\* C31: handling any signaling message (callUser, answerCall, iceCandidate,
\* endCall, rejectCall) leaves userSocketMap unchanged and emits no
\* getOnlineUsers broadcast: a step after which the last event handled is a
\* signaling message has not changed the map and has no broadcast in what the
\* handler emitted; the map changes only in the connection and the disconnect
\* handler.
C31_SignalingLeavesMap ==
  [][/\ srvEv'.op \in SignalingOps =>
         /\ userSocketMap' = userSocketMap
         /\ \A i \in 1..Len(srvOut') : srvOut'[i].ev # "getOnlineUsers"
     /\ userSocketMap' # userSocketMap =>
         srvEv'.op \in {"connection", "disconnect"}]_vars

\* a signaling message forwarded while two users are in the map and three
\* sockets are connected
C31_Witness ==
  /\ srvEv.op \in SignalingOps
  /\ Cardinality(DOMAIN userSocketMap) = 2
  /\ Cardinality(connected) = 3
  /\ Len(srvOut) = 1 /\ srvOut[1].ev = ForwardedAs(srvEv.op)

\* C38: the sender identity (from) delivered to a callee in a forwarded invite
\* equals the user id under which the sending socket registered at connection
\* time: no socket makes the relay deliver an invite that names another
\* identity as the sender.
C38_SenderIsRegisteredUser ==
  srvEv.op = "callUser" =>
    \A i \in 1..Len(srvOut) :
      srvOut[i].ev = "callUser" => srvOut[i].from = srvEv.user

\* the endCall messages among those the handler emitted
EndCalls(k) == Cardinality({i \in 1..Len(k.out) : k.out[i].ev = "endCall"})

\* C35: endCall is idempotent: called twice in a row with no event in between,
\* from any state a tab can be in, it emits at most one endCall message in
\* total, and the state after the second call equals the state after the
\* first.
C35_EndCallIdempotent ==
  \A c \in Users :
    LET k1 == endCall([cl[c] EXCEPT !.out = <<>>])
        k2 == endCall(k1)
    IN /\ EndCalls(k2) <= 1
       /\ k2 = k1

\* a tab whose endCall has just sent one message to its remote party after
\* the invite timed out: a second endCall now sends nothing
C35_Witness ==
  \E c \in Users :
    /\ cl[c].hEnd = "timeout"
    /\ EndCalls(cl[c]) = 1
    /\ cl[c].callEnded /\ cl[c].from = Nil
    /\ endCall(cl[c]) = cl[c]

\* the answerCall messages among those the handler emitted
AnswerCalls(k) == {i \in 1..Len(k.out) : k.out[i].ev = "answerCall"}

\* C33: for each invite a callee receives it emits at most one answerCall
\* message, and that message carries a non-null answer generated from that
\* invite's offer: a step that sends answerCall sends one, with the answer to
\* the offer in callSignal, and none was sent for this invite before.
C33_OneAnswerPerInvite ==
  [][\A c \in Users :
       (cl'[c] # cl[c] /\ AnswerCalls(cl'[c]) # {}) =>
         /\ Cardinality(AnswerCalls(cl'[c])) = 1
         /\ \A i \in AnswerCalls(cl'[c]) :
              /\ cl'[c].out[i].signal # NullSig
              /\ cl'[c].out[i].signal = AnswerTo(cl[c].callSignal)
         /\ cl[c].hHow # "answered"]_vars

InCall(k) == k.callAccepted /\ ~k.callEnded /\ k.from # Nil /\ k.mounted

\* C32: within one session the peer connection that generated the tab's local
\* description (the caller's offer, the callee's answer) is the connection
\* that stays open for the call and takes the remote description and the
\* remote candidates: the open connection the VideoCall of an accepted call
\* works on has the local description, it is not a fresh replacement.
C32_SamePcThroughSession ==
  \A c \in Users :
    (InCall(cl[c]) /\ cl[c].peerConnection # NoPc) =>
      LET pc == cl[c].pcs[cl[c].peerConnection]
      IN pc.open => pc.localDesc # NullSig

\* C34: the call status shown is 'connected' only while the state of the
\* tab's peer connection is connected: neither getMediaWithErrorHandling nor
\* the end of handleReconnection's wait leaves callStatus 'connected' over a
\* connection that is new, connecting, disconnected or failed, or over none.
C34_ConnectedMeansTransportUp ==
  \A c \in Users :
    cl[c].statusConnected =>
      /\ cl[c].peerConnection # NoPc
      /\ cl[c].pcs[cl[c].peerConnection].open
      /\ cl[c].pcs[cl[c].peerConnection].conn = "connected"

\* the sockets of the tab that are open: connecting, connected or reconnecting
OpenSockets(k) == k.otherOpen + (IF k.sockOpen THEN 1 ELSE 0)

\* C36: a client never has more than one open socket at a time, for every
\* sequence of checkAuth, login, signup and logout calls: connectSocket
\* creates a socket only when no socket this client created before is
\* connected or still connecting.
C36_OneOpenSocket ==
  \A c \in Users : OpenSockets(cl[c]) <= 1

====
